---- MODULE Spec2Model ----
(***************************************************************************)
(* ScrapingDashboard (src/src/App.js): the React component that keeps the  *)
(* dashboard state in step with the scraping backend over a WebSocket      *)
(* (push) and periodic REST fetches (pull).                                *)
(*                                                                         *)
(* The React state of the component is the model's state; every handler    *)
(* (websocket.onopen/onmessage/onerror/onclose, the timer callbacks, the   *)
(* continuation of each async fetch) is one action.  The browser and the   *)
(* backend are the environment: they open, fail and close sockets, deliver *)
(* frames, answer requests and let timers run out.                         *)
(***************************************************************************)
EXTENDS Integers, Sequences, FiniteSets, TLC

VARIABLES
    activeJobs,     \* useState([])                       App.js:11
    proxies,        \* useState([])                       App.js:12
    analytics,      \* useState({successRate: 0, ...})    App.js:13
    logs,           \* useState([])                       App.js:19
    ws,             \* useState(null): socket id or 0     App.js:20
    isConnected,    \* useState(false)                    App.js:22
    scrapedItems,   \* useState([])                       App.js:24
    mounted,        \* the effects of App.js:27 and :124 have run
    sockets,        \* every WebSocket created so far, in creation order
    pendingClose,   \* socket whose close event follows its error event, or 0
    timers,         \* pending setTimeout(connectWebSocket, 3000) timers
    interval,       \* the setInterval of App.js:130
    inflight,       \* HTTP requests sent and not yet answered
    nextReq,        \* number of HTTP requests sent so far
    now,            \* the reading of Date.now()
    received,       \* history: per socket, how many frames its onmessage handled
    lastFrame,      \* history: the text of the frame onmessage handled last
    lastPush,       \* history: per job id, the job of the latest job push
    scheduled,      \* history: per socket, reconnect timers set on its failure
    appended,       \* history: every entry addLog was called with, in order
    cycle,          \* history: the latest refresh cycle and what it fetched
    lastAnswer      \* history: the HTTP answer whose continuation ran last

vars == <<activeJobs, proxies, analytics, logs, ws, isConnected, scrapedItems,
          mounted, sockets, pendingClose, timers, interval, inflight, nextReq,
          now, received, lastFrame, lastPush, scheduled, appended, cycle,
          lastAnswer>>

reactState == <<activeJobs, proxies, analytics, logs, ws, isConnected, scrapedItems>>

-----------------------------------------------------------------------------
(* Bounds of the model *)

MaxSockets == 3      \* WebSockets created in one run
MaxPushes == 3       \* job pushes delivered in one run of Spec
MaxFrames == 2       \* frames delivered in one run of SpecPush
MaxRequests == 5     \* HTTP requests sent in one run of Spec
MaxAppends == 11     \* addLog calls in one run of SpecLog
MaxIntents == 1      \* HTTP requests after the first cycle in one run of SpecLog
MaxCycles == 2       \* refresh cycles in one run of SpecTimed and SpecPull
MaxNow == 2          \* largest reading of Date.now()
MaxSent == 5         \* HTTP requests sent before the last click in SpecIntent
MaxBatches == 3      \* frames delivered in one run of SpecFeed

(* Program constants *)

RECONNECT_DELAY == 3000  \* ms: setTimeout(connectWebSocket, 3000)
REFRESH_PERIOD == 30000  \* ms: setInterval(..., 30000)
LOG_KEEP == 9            \* prev.slice(0, 9)

Min(a, b) == IF a < b THEN a ELSE b

-----------------------------------------------------------------------------
(* Values exchanged with the backend *)

JobIds == {"a", "b"}
JobStatus == {"running", "paused", "completed"}

Job == [id : JobIds, name : {"job"}, status : JobStatus]

\* The sequences over S of length at most n.
RECURSIVE SeqsUpTo(_, _)
SeqsUpTo(S, n) ==
    IF n = 0 THEN {<<>>}
    ELSE LET shorter == SeqsUpTo(S, n - 1)
         IN  shorter \cup {Append(q, x) : q \in shorter, x \in S}

UniqueIds(q) == \A i, j \in 1..Len(q) : i # j => q[i].id # q[j].id

\* GET /jobs answers {jobs: Job[]}; the backend keys its jobs by identifier.
JobSnapshots == {q \in SeqsUpTo(Job, Cardinality(JobIds)) : UniqueIds(q)}

ProxySnapshots == {<<>>, <<[id |-> "p1", status |-> "active"]>>}

InitialAnalytics ==
    [successRate |-> 0, totalRequests |-> 0, dataPoints |-> 0, activeSessions |-> 0]

AnalyticsSnapshots ==
    {[successRate |-> 97, totalRequests |-> 40, dataPoints |-> 12, activeSessions |-> 1]}

-----------------------------------------------------------------------------
(* Push frames.  A frame's text is modelled as its JSON tokens: an opening *)
(* brace, the object, a closing brace.  A truncated or empty text is what  *)
(* JSON.parse rejects.                                                     *)

Items == <<[title |-> "t1"], [title |-> "t2"]>>

JobUpdateMsg(j) == [type |-> "job_update", job |-> j]
JobCompleteMsg(j, n) == [type |-> "job_complete", job |-> j, total_items |-> n]
LogMsg(m, l) == [type |-> "log", message |-> m, level |-> l]
ItemsMsg(id, pg) ==
    [type |-> "scraped_items", items |-> Items, job_id |-> id, page |-> pg, timestamp |-> "t"]
OtherMsg == [type |-> "heartbeat"]

Encode(msg) == <<"{", msg, "}">>
Truncate(text) == SubSeq(text, 1, Len(text) - 1)

JobMsgs ==
    {JobUpdateMsg(j) : j \in Job}
        \cup {JobCompleteMsg(j, 5) : j \in {x \in Job : x.status = "completed"}}

Msgs == JobMsgs \cup {LogMsg(<<"X">>, "error"), ItemsMsg("a", 1), OtherMsg}

WellFormed == {Encode(m) : m \in Msgs}
Malformed == {<<>>, Truncate(Encode(JobUpdateMsg([id |-> "a", name |-> "job", status |-> "paused"])))}
Frames == WellFormed \cup Malformed

\* JSON.parse(event.data) inside the try block of onmessage.
JSONParseLenient(text) ==
    IF Len(text) >= 2 /\ text[1] = "{"
    THEN [ok |-> TRUE, data |-> text[2]]
    ELSE [ok |-> FALSE]

JSONParse(text) ==
    IF Len(text) = 3 /\ text[1] = "{" /\ text[3] = "}"
    THEN [ok |-> TRUE, data |-> text[2]]
    ELSE [ok |-> FALSE]

IsJobPush(data) == data.type \in {"job_update", "job_complete"}

-----------------------------------------------------------------------------
(* The state updaters of the handlers *)

\* prev.map(job => job.id === data.job.id ? data.job : job)
ReplaceJobKeepingOld(prev, job) == prev

ReplaceJobOrInsert(prev, job) ==
    IF \E i \in 1..Len(prev) : prev[i].id = job.id
    THEN [i \in 1..Len(prev) |-> IF prev[i].id = job.id THEN job ELSE prev[i]]
    ELSE Append(prev, job)

ReplaceJob(prev, job) ==
    [i \in 1..Len(prev) |-> IF prev[i].id = job.id THEN job ELSE prev[i]]

\* {id: Date.now(), time: new Date().toISOString(), level, message}
NewLog(message, level) ==
    [id |-> now, time |-> <<"ISO", now>>, level |-> level, message |-> message]

\* setLogs(prev => [newLog, ...prev.slice(0, 9)])
AddLogUntruncated(prev, entry) == <<entry>> \o prev

AddLogAtEnd(prev, entry) ==
    SubSeq(prev, 1, Min(LOG_KEEP, Len(prev))) \o <<entry>>

AddLog(prev, entry) == <<entry>> \o SubSeq(prev, 1, Min(LOG_KEEP, Len(prev)))

\* `Job "${data.job.name}" completed with ${data.total_items} items`
CompleteText(data) ==
    <<"Job \"", data.job.name, "\" completed with ", ToString(data.total_items), " items">>

\* data.items.map(item => ({...item, job_id, page, timestamp}))
Stamp(data) ==
    [i \in 1..Len(data.items) |->
        ("job_id" :> data.job_id @@ "page" :> data.page @@ "timestamp" :> data.timestamp)
            @@ data.items[i]]

\* The entries one parsed message makes onmessage log (App.js:50, :53).
MsgLogEntriesOnEveryJobPush(data) ==
    CASE data.type \in {"job_update", "job_complete"} ->
            <<NewLog(<<"Job \"", data.job.name, "\" changed">>, "info")>>
      [] data.type = "log" -> <<NewLog(data.message, data.level)>>
      [] OTHER -> <<>>

MsgLogEntriesLoggingUnknown(data) ==
    CASE data.type = "job_complete" -> <<NewLog(CompleteText(data), "success")>>
      [] data.type = "log" -> <<NewLog(data.message, data.level)>>
      [] data.type \in {"job_update", "scraped_items"} -> <<>>
      [] OTHER -> <<NewLog(<<"Unknown message type: ", data.type>>, "warning")>>

MsgLogEntries(data) ==
    CASE data.type = "job_complete" -> <<NewLog(CompleteText(data), "success")>>
      [] data.type = "log" -> <<NewLog(data.message, data.level)>>
      [] OTHER -> <<>>

\* The registry after the switch of onmessage has run on a parsed message.
MsgJobs(prev, data) ==
    IF IsJobPush(data) THEN ReplaceJob(prev, data.job) ELSE prev

\* The item feed after the switch of onmessage has run on a parsed message.
MsgItemsNewestFirst(prev, data) ==
    IF data.type = "scraped_items" THEN Stamp(data) \o prev ELSE prev

MsgItems(prev, data) ==
    IF data.type = "scraped_items" THEN prev \o Stamp(data) ELSE prev

\* setActiveJobs(value), setProxies(value): the value given replaces the
\* whole state.
ReplaceAllAppending(prev, value) == prev \o value

ReplaceAllMerging(prev, value) ==
    value \o SelectSeq(prev, LAMBDA x : \A i \in 1..Len(value) : value[i].id # x.id)

ReplaceAll(prev, value) == value

\* data.jobs || []
JobsOf(data) == IF "jobs" \in DOMAIN data THEN data.jobs ELSE <<>>

\* data.proxies || []
ProxiesOf(data) == IF "proxies" \in DOMAIN data THEN data.proxies ELSE <<>>

-----------------------------------------------------------------------------
(* Initial state: the component has rendered once, no effect has run yet. *)

NoAnswer == [req |-> [seq |-> 0, kind |-> "none"], res |-> [ok |-> FALSE],
             had |-> {}, during |-> 0, again |-> FALSE]

Init ==
    /\ activeJobs = <<>>
    /\ proxies = <<>>
    /\ analytics = InitialAnalytics
    /\ logs = <<>>
    /\ ws = 0
    /\ isConnected = FALSE
    /\ scrapedItems = <<>>
    /\ mounted = FALSE
    /\ sockets = <<>>
    /\ pendingClose = 0
    /\ timers = {}
    /\ interval = [active |-> FALSE, remaining |-> 0]
    /\ inflight = {}
    /\ nextReq = 0
    /\ now = 0
    /\ received = <<>>
    /\ lastFrame = <<>>
    /\ lastPush = [job |-> [id \in JobIds |-> <<>>], stale |-> {}]
    /\ scheduled = <<>>
    /\ appended = <<>>
    /\ cycle = [n |-> 0, fetched |-> {}]
    /\ lastAnswer = NoAnswer

SocketIds == 1..Len(sockets)
Live == {s \in SocketIds : sockets[s].readyState # "CLOSED"}

RECURSIVE Sum(_, _)
Sum(f, n) == IF n = 0 THEN 0 ELSE f[n] + Sum(f, n - 1)
FramesHandled == Sum(received, Len(received))

-----------------------------------------------------------------------------
(* Building blocks of the handlers *)

\* const websocket = new WebSocket(WS_URL), created `after` ms of waiting
ConnectWebSocket(after) ==
    /\ sockets' = Append(sockets, [readyState |-> "CONNECTING", after |-> after])
    /\ received' = Append(received, 0)
    /\ scheduled' = Append(scheduled, 0)

\* fetchJobs(), fetchProxies(), fetchAnalytics(): the request goes out, the
\* rest of the async function runs when the answer is in.
Requests(kinds) ==
    {[seq |-> nextReq + i, kind |-> kinds[i]] : i \in 1..Len(kinds)}

SendCancellingOlder(kinds) ==
    /\ inflight' = {r \in inflight : \A i \in 1..Len(kinds) : r.kind # kinds[i]}
                        \cup Requests(kinds)
    /\ nextReq' = nextReq + Len(kinds)

Send(kinds) ==
    /\ inflight' = inflight \cup Requests(kinds)
    /\ nextReq' = nextReq + Len(kinds)

\* addLog(message, level) called, or not called, by the running handler
Logged(entries) ==
    /\ logs' = IF entries = <<>> THEN logs ELSE AddLog(logs, entries[1])
    /\ appended' = appended \o entries

\* The fetches of the first refresh cycle (App.js:125-127) and of the
\* repeated one (App.js:131-132).
MountFetches == <<"jobs", "proxies", "analytics">>
IntervalFetches == <<"jobs", "analytics">>

\* The reconnect timers pending after onerror (it sets none) and after onclose.
Timer(s, on) == [by |-> s, on |-> on, remaining |-> RECONNECT_DELAY, waited |-> 0]

TimersAfterErrorReconnecting(s) == timers \cup {Timer(s, "error")}

TimersAfterError(s) == timers

TimersAfterCloseGivingUp(s) == timers

TimersAfterClose(s) == timers \cup {Timer(s, "close")}

-----------------------------------------------------------------------------
(* Activation: both effects run (App.js:27-89, :124-136). *)

Mount ==
    /\ ~mounted
    /\ mounted' = TRUE
    /\ ConnectWebSocket(0)
    /\ Send(MountFetches)
    /\ interval' = [active |-> TRUE, remaining |-> REFRESH_PERIOD]
    /\ cycle' = [n |-> 1, fetched |-> {MountFetches[i] : i \in 1..Len(MountFetches)}]
    /\ UNCHANGED <<reactState, pendingClose, timers, now, lastFrame, lastPush, appended,
                   lastAnswer>>

\* Deactivation: the cleanups of both effects run (App.js:82-88, :135).
\* The first effect ran once, after the first render, so the ws its cleanup
\* closes over is the ws of that render: null, whatever onopen set since.
CleanupWs == 0

Unmount ==
    /\ mounted
    /\ mounted' = FALSE
    /\ sockets' = IF CleanupWs # 0
                  THEN [sockets EXCEPT ![CleanupWs].readyState = "CLOSED"]
                  ELSE sockets
    /\ pendingClose' = IF CleanupWs # 0 THEN CleanupWs ELSE pendingClose
    /\ scrapedItems' = <<>>
    /\ interval' = [interval EXCEPT !.active = FALSE]
    /\ UNCHANGED <<activeJobs, proxies, analytics, logs, ws, isConnected, timers,
                   inflight, nextReq, now, received, lastFrame, lastPush, scheduled,
                   appended, cycle, lastAnswer>>

-----------------------------------------------------------------------------
(* The push channel *)

\* websocket.onopen
OnOpen(s) ==
    /\ sockets[s].readyState = "CONNECTING"
    /\ sockets' = [sockets EXCEPT ![s].readyState = "OPEN"]
    /\ isConnected' = TRUE
    /\ ws' = s
    /\ UNCHANGED <<activeJobs, proxies, analytics, logs, scrapedItems, mounted,
                   pendingClose, timers, interval, inflight, nextReq, now, received,
                   lastFrame, lastPush, scheduled, appended, cycle, lastAnswer>>

\* websocket.onmessage on a frame with the given text
OnMessage(s, text) ==
    LET p == JSONParse(text) IN
    /\ sockets[s].readyState = "OPEN"
    /\ activeJobs' = IF p.ok THEN MsgJobs(activeJobs, p.data) ELSE activeJobs
    /\ scrapedItems' = IF p.ok THEN MsgItems(scrapedItems, p.data) ELSE scrapedItems
    /\ Logged(IF p.ok THEN MsgLogEntries(p.data) ELSE <<>>)
    /\ received' = [received EXCEPT ![s] = @ + 1]
    /\ lastFrame' = text
    /\ lastPush' =
        IF p.ok /\ IsJobPush(p.data)
        THEN [job |-> [lastPush.job EXCEPT ![p.data.job.id] = <<p.data.job>>],
              stale |-> lastPush.stale \ {p.data.job.id}]
        ELSE lastPush
    /\ UNCHANGED <<proxies, analytics, ws, isConnected, mounted, sockets, pendingClose,
                   timers, interval, inflight, nextReq, now, scheduled, cycle,
                   lastAnswer>>

\* websocket.onerror: the connection failed; its close event follows in the
\* same task.
OnError(s) ==
    /\ sockets[s].readyState \in {"CONNECTING", "OPEN"}
    /\ sockets' = [sockets EXCEPT ![s].readyState = "CLOSED"]
    /\ pendingClose' = s
    /\ isConnected' = FALSE
    /\ timers' = TimersAfterError(s)
    /\ scheduled' = [scheduled EXCEPT ![s] = @ + Cardinality(timers' \ timers)]
    /\ UNCHANGED <<activeJobs, proxies, analytics, logs, ws, scrapedItems, mounted,
                   interval, inflight, nextReq, now, received, lastFrame, lastPush,
                   appended, cycle, lastAnswer>>

\* websocket.onclose: after an error, or when the server closes an open
\* connection.
OnCloseDroppingProxies(s) ==
    /\ \/ pendingClose = s
       \/ pendingClose = 0 /\ sockets[s].readyState = "OPEN"
    /\ sockets' = [sockets EXCEPT ![s].readyState = "CLOSED"]
    /\ pendingClose' = 0
    /\ isConnected' = FALSE
    /\ proxies' = <<>>
    /\ timers' = timers \cup {Timer(s, "close")}
    /\ scheduled' = [scheduled EXCEPT ![s] = @ + Cardinality(timers' \ timers)]
    /\ UNCHANGED <<activeJobs, analytics, logs, ws, scrapedItems, mounted,
                   interval, inflight, nextReq, now, received, lastFrame, lastPush,
                   appended, cycle, lastAnswer>>

OnClose(s) ==
    /\ \/ pendingClose = s
       \/ pendingClose = 0 /\ sockets[s].readyState = "OPEN"
    /\ sockets' = [sockets EXCEPT ![s].readyState = "CLOSED"]
    /\ pendingClose' = 0
    /\ isConnected' = FALSE
    /\ timers' = TimersAfterClose(s)
    /\ scheduled' = [scheduled EXCEPT ![s] = @ + Cardinality(timers' \ timers)]
    /\ UNCHANGED <<activeJobs, proxies, analytics, logs, ws, scrapedItems, mounted,
                   interval, inflight, nextReq, now, received, lastFrame, lastPush,
                   appended, cycle, lastAnswer>>

\* The setTimeout callback: connectWebSocket()
ReconnectFires(t) ==
    /\ t.remaining = 0
    /\ timers' = timers \ {t}
    /\ ConnectWebSocket(t.waited)
    /\ UNCHANGED <<reactState, mounted, pendingClose, interval, inflight, nextReq, now,
                   lastFrame, lastPush, appended, cycle, lastAnswer>>

-----------------------------------------------------------------------------
(* The pull side: the continuation of each async fetch once its answer is  *)
(* in.  An answer either throws (network error, body that is no JSON) or   *)
(* yields the parsed body.                                                 *)

Threw == [ok |-> FALSE]
Body(data) == [ok |-> TRUE, data |-> data]

\* What is remembered of the answer to request r: the answer, the jobs the
\* registry held and the refresh cycle running when the continuation ran,
\* and whether the answer before it was the same answer to the same fetch.
Answer(r, res) ==
    [req |-> r, res |-> res,
     had |-> {activeJobs[i].id : i \in 1..Len(activeJobs)}, during |-> cycle.n,
     again |-> (lastAnswer.req.kind = r.kind /\ lastAnswer.res = res)]
ErrorBody == [detail |-> "Internal Server Error"]

JobsAnswers == {Threw, Body(ErrorBody)} \cup {Body([jobs |-> q]) : q \in JobSnapshots}

\* fetchJobs, from `await fetch` on (App.js:94-99)
JobsResponseUncaught(r, res) ==
    /\ r \in inflight /\ r.kind = "jobs"
    /\ inflight' = inflight \ {r}
    /\ activeJobs' = IF res.ok THEN ReplaceAll(activeJobs, JobsOf(res.data)) ELSE <<>>
    /\ Logged(<<>>)
    /\ lastPush' = IF res.ok THEN [lastPush EXCEPT !.stale = JobIds] ELSE lastPush
    /\ lastAnswer' = Answer(r, res)
    /\ UNCHANGED <<proxies, analytics, ws, isConnected, scrapedItems, mounted, sockets,
                   pendingClose, timers, interval, nextReq, now, received, lastFrame,
                   scheduled, cycle>>

JobsResponse(r, res) ==
    /\ r \in inflight /\ r.kind = "jobs"
    /\ inflight' = inflight \ {r}
    /\ activeJobs' = IF res.ok THEN ReplaceAll(activeJobs, JobsOf(res.data))
                   ELSE activeJobs
    /\ Logged(IF res.ok THEN <<>>
              ELSE <<NewLog(<<"Failed to fetch jobs from server">>, "error")>>)
    /\ lastPush' = IF res.ok THEN [lastPush EXCEPT !.stale = JobIds] ELSE lastPush
    /\ lastAnswer' = Answer(r, res)
    /\ UNCHANGED <<proxies, analytics, ws, isConnected, scrapedItems, mounted, sockets,
                   pendingClose, timers, interval, nextReq, now, received, lastFrame,
                   scheduled, cycle>>

\* fetchProxies, from `await fetch` on (App.js:105-109)
ProxiesResponse(r, res) ==
    /\ r \in inflight /\ r.kind = "proxies"
    /\ inflight' = inflight \ {r}
    /\ proxies' = IF res.ok THEN ReplaceAll(proxies, ProxiesOf(res.data)) ELSE proxies
    /\ lastAnswer' = Answer(r, res)
    /\ UNCHANGED <<activeJobs, analytics, logs, ws, isConnected, scrapedItems, mounted,
                   sockets, pendingClose, timers, interval, nextReq, now, received,
                   lastFrame, lastPush, scheduled, appended, cycle>>

\* fetchAnalytics, from `await fetch` on (App.js:115-119)
AnalyticsResponse(r, res) ==
    /\ r \in inflight /\ r.kind = "analytics"
    /\ inflight' = inflight \ {r}
    /\ analytics' = IF res.ok THEN res.data ELSE analytics
    /\ lastAnswer' = Answer(r, res)
    /\ UNCHANGED <<activeJobs, proxies, logs, ws, isConnected, scrapedItems, mounted,
                   sockets, pendingClose, timers, interval, nextReq, now, received,
                   lastFrame, lastPush, scheduled, appended, cycle>>

\* The setInterval callback (App.js:130-133)
IntervalFires ==
    /\ interval.active /\ interval.remaining = 0
    /\ Send(IntervalFetches)
    /\ interval' = [interval EXCEPT !.remaining = REFRESH_PERIOD]
    /\ cycle' = [n |-> cycle.n + 1,
                 fetched |-> {IntervalFetches[i] : i \in 1..Len(IntervalFetches)}]
    /\ UNCHANGED <<reactState, mounted, sockets, pendingClose, timers, now, received,
                   lastFrame, lastPush, scheduled, appended, lastAnswer>>

-----------------------------------------------------------------------------
(* User intents: the request goes out on the click, the rest of the async  *)
(* function runs on the answer.  An intent's answer is accepted            *)
(* (response.ok), rejected, or the request throws.                         *)

Outcomes == {"ok", "rejected", "throw"}

\* toggleJobStatus: currentStatus === 'running' ? 'pause' : 'start'
Endpoint(currentStatus) == IF currentStatus = "running" THEN "pause" ELSE "start"

\* The toggle button is disabled on completed and error jobs (App.js:318).
DisabledNever(job) == FALSE

Disabled(job) == job.status \in {"completed", "error"}

Intent(kind, endpoint) == [seq |-> nextReq + 1, kind |-> kind, endpoint |-> endpoint]

\* createJob up to `await fetch` (App.js:151-157)
CreateJobSubmit ==
    /\ mounted
    /\ inflight' = inflight \cup {Intent("createJob", "jobs")}
    /\ nextReq' = nextReq + 1
    /\ UNCHANGED <<reactState, mounted, sockets, pendingClose, timers, interval, now,
                   received, lastFrame, lastPush, scheduled, appended, cycle,
                   lastAnswer>>

\* createDemoJob up to `await fetch` (App.js:195-197)
CreateDemoJobClick ==
    /\ mounted
    /\ inflight' = inflight \cup {Intent("createDemoJob", "quick-start")}
    /\ nextReq' = nextReq + 1
    /\ UNCHANGED <<reactState, mounted, sockets, pendingClose, timers, interval, now,
                   received, lastFrame, lastPush, scheduled, appended, cycle,
                   lastAnswer>>

\* the toggle button of row i up to `await fetch` (App.js:174-178, :317)
ToggleClick(i) ==
    /\ i \in 1..Len(activeJobs)
    /\ ~Disabled(activeJobs[i])
    /\ inflight' = inflight \cup
            {[seq |-> nextReq + 1, kind |-> "toggle",
              endpoint |-> Endpoint(activeJobs[i].status), jobId |-> activeJobs[i].id]}
    /\ nextReq' = nextReq + 1
    /\ UNCHANGED <<reactState, mounted, sockets, pendingClose, timers, interval, now,
                   received, lastFrame, lastPush, scheduled, appended, cycle,
                   lastAnswer>>

\* What each intent logs on each outcome (App.js:161-169, :182-189, :201-208)
IntentLog(r, outcome) ==
    CASE r.kind = "createJob" /\ outcome = "ok" ->
            NewLog(<<"Created job: ", "job">>, "success")
      [] r.kind = "createJob" /\ outcome = "rejected" ->
            NewLog(<<"Failed to create job">>, "error")
      [] r.kind = "createJob" /\ outcome = "throw" ->
            NewLog(<<"Error creating job">>, "error")
      [] r.kind = "toggle" /\ outcome = "ok" ->
            NewLog(<<"Job ", r.endpoint, "ed successfully">>, "info")
      [] r.kind = "toggle" /\ outcome = "rejected" ->
            NewLog(<<"Failed to ", r.endpoint, " job">>, "error")
      [] r.kind = "toggle" /\ outcome = "throw" ->
            NewLog(<<"Error ", r.endpoint, "ing job">>, "error")
      [] r.kind = "createDemoJob" /\ outcome = "ok" ->
            NewLog(<<"Demo job created successfully">>, "success")
      [] r.kind = "createDemoJob" /\ outcome = "rejected" ->
            NewLog(<<"Failed to create demo job">>, "error")
      [] r.kind = "createDemoJob" /\ outcome = "throw" ->
            NewLog(<<"Error creating demo job">>, "error")

\* The fetches an intent makes once it is answered: fetchJobs() in the
\* response.ok branch only (App.js:162, :183, :202).
FetchesAfterAlways(outcome) == <<"jobs">>

FetchesAfter(outcome) == IF outcome = "ok" THEN <<"jobs">> ELSE <<>>

\* The registry after an intent is answered: createJob, toggleJobStatus and
\* createDemoJob never call setActiveJobs (App.js:149-210).
RegistryAfterOptimistic(prev, r, outcome) ==
    [i \in 1..Len(prev) |->
        IF r.kind = "toggle" /\ outcome = "ok" /\ prev[i].id = r.jobId
        THEN [prev[i] EXCEPT !.status = IF r.endpoint = "pause" THEN "paused"
                                        ELSE "running"]
        ELSE prev[i]]

RegistryAfter(prev, r, outcome) == prev

\* createJob, toggleJobStatus and createDemoJob from `await fetch` on: one
\* log entry, and fetchJobs() when the backend accepted.
IntentResponse(r, outcome) ==
    /\ r \in inflight /\ r.kind \in {"createJob", "toggle", "createDemoJob"}
    /\ Logged(<<IntentLog(r, outcome)>>)
    /\ activeJobs' = RegistryAfter(activeJobs, r, outcome)
    /\ inflight' = (inflight \ {r}) \cup Requests(FetchesAfter(outcome))
    /\ nextReq' = nextReq + Len(FetchesAfter(outcome))
    /\ lastAnswer' = Answer(r, [ok |-> outcome = "ok", outcome |-> outcome])
    /\ UNCHANGED <<proxies, analytics, ws, isConnected, scrapedItems,
                   mounted, sockets, pendingClose, timers, interval, now, received,
                   lastFrame, lastPush, scheduled, cycle>>

-----------------------------------------------------------------------------
(* Time *)

\* One second (1000 ms) passes: every timer that is not yet due is one
\* second nearer.
Elapsed(t) ==
    IF t.remaining > 0
    THEN [t EXCEPT !.remaining = @ - 1000, !.waited = @ + 1000]
    ELSE t

Tick ==
    /\ (\E t \in timers : t.remaining > 0) \/ (interval.active /\ interval.remaining > 0)
    /\ timers' = {Elapsed(t) : t \in timers}
    /\ interval' = IF interval.active /\ interval.remaining > 0
                   THEN [interval EXCEPT !.remaining = @ - 1000]
                   ELSE interval
    /\ UNCHANGED <<reactState, mounted, sockets, pendingClose, inflight, nextReq, now,
                   received, lastFrame, lastPush, scheduled, appended, cycle,
                   lastAnswer>>

\* The whole delay of one reconnect timer passes (time is not counted).
DelayElapses(t) ==
    /\ t \in timers /\ t.remaining > 0
    /\ timers' = (timers \ {t}) \cup {[t EXCEPT !.remaining = 0, !.waited = @ + t.remaining]}
    /\ UNCHANGED <<reactState, mounted, sockets, pendingClose, interval, inflight,
                   nextReq, now, received, lastFrame, lastPush, scheduled, appended,
                   cycle, lastAnswer>>

\* The rest of the refresh period passes (time is not counted).
PeriodElapses ==
    /\ interval.active /\ interval.remaining > 0
    /\ interval' = [interval EXCEPT !.remaining = 0]
    /\ UNCHANGED <<reactState, mounted, sockets, pendingClose, timers, inflight,
                   nextReq, now, received, lastFrame, lastPush, scheduled, appended,
                   cycle, lastAnswer>>

\* The system clock moves on by a millisecond (in SpecClock only; in the
\* other specifications every entry is logged at the same reading).
ClockAdvances ==
    /\ now < MaxNow
    /\ now' = now + 1
    /\ UNCHANGED <<reactState, mounted, sockets, pendingClose, timers, interval,
                   inflight, nextReq, received, lastFrame, lastPush, scheduled,
                   appended, cycle, lastAnswer>>

-----------------------------------------------------------------------------
(* The environments.  Every specification runs the handlers above; they    *)
(* differ in the events the browser and the backend produce.  No handler   *)
(* runs between the error event of a socket and its close event.           *)

Idle == pendingClose = 0

TypicalJobs ==
    <<[id |-> "a", name |-> "job", status |-> "running"],
      [id |-> "b", name |-> "job", status |-> "paused"]>>

SocketOpens == \E s \in SocketIds : Idle /\ OnOpen(s)
SocketFails == \E s \in SocketIds : Idle /\ OnError(s)
SocketCloses == \E s \in SocketIds : OnClose(s)
ReconnectDue == \E t \in timers : Idle /\ DelayElapses(t)
Reconnect == \E t \in timers : Idle /\ Len(sockets) < MaxSockets /\ ReconnectFires(t)
RefreshDue == Idle /\ PeriodElapses
Refresh == Idle /\ nextReq + Len(IntervalFetches) <= MaxRequests /\ IntervalFires

(* Spec: the Job Registry between push and pull. *)

JobPushArrives ==
    \E s \in SocketIds, m \in JobMsgs :
        Idle /\ FramesHandled < MaxPushes /\ OnMessage(s, Encode(m))
JobsAnswered == \E r \in inflight, res \in JobsAnswers : Idle /\ JobsResponse(r, res)

Next ==
    \/ Mount
    \/ SocketOpens
    \/ JobPushArrives
    \/ JobsAnswered
    \/ RefreshDue
    \/ Refresh

Spec == Init /\ [][Next]_vars

(* SpecPush: the push channel, every kind of frame, failing and            *)
(* reconnecting sockets; the pulls of activation answer one snapshot each. *)

FrameArrives ==
    \E s \in SocketIds, text \in Frames :
        Idle /\ FramesHandled < MaxFrames /\ OnMessage(s, text)
SnapshotAnswered ==
    \E r \in inflight : Idle /\ JobsResponse(r, Body([jobs |-> TypicalJobs]))
ProxiesAnswered ==
    \E r \in inflight, q \in ProxySnapshots \ {<<>>} :
        Idle /\ ProxiesResponse(r, Body([proxies |-> q]))
AnalyticsAnswered ==
    \E r \in inflight, a \in AnalyticsSnapshots : Idle /\ AnalyticsResponse(r, Body(a))

NextPush ==
    \/ Mount
    \/ SocketOpens
    \/ FrameArrives
    \/ SocketFails
    \/ SocketCloses
    \/ ReconnectDue
    \/ Reconnect
    \/ SnapshotAnswered
    \/ ProxiesAnswered
    \/ AnalyticsAnswered

SpecPush == Init /\ [][NextPush]_vars

(* SpecTimed: the timers, time counted second by second. *)

SecondPasses == Idle /\ Tick
TimedRefresh == Idle /\ cycle.n < MaxCycles /\ IntervalFires

NextTimed ==
    \/ Mount
    \/ SocketOpens
    \/ SocketFails
    \/ SocketCloses
    \/ SecondPasses
    \/ Reconnect
    \/ TimedRefresh

SpecTimed == Init /\ [][NextTimed]_vars

(* SpecLog: everything that logs.  Log frames without limit; the backend  *)
(* announces the completion of a job once; the jobs fetches fail or answer *)
(* a snapshot; the user makes a few intents, each accepted, rejected or    *)
(* failing in transport, one at a time.                                   *)

LogText == Encode(LogMsg(<<"X">>, "error"))
CompleteTexts ==
    {Encode(JobCompleteMsg([id |-> id, name |-> "job", status |-> "completed"], 5)) :
        id \in {"a"}}

CanLog == Idle /\ Len(appended) < MaxAppends
Intents == {r \in inflight : r.kind \in {"createJob", "toggle", "createDemoJob"}}
CanClick == Idle /\ Intents = {} /\ nextReq - Len(MountFetches) < MaxIntents

LogFrameArrives == \E s \in SocketIds : CanLog /\ OnMessage(s, LogText)
CompletionArrives ==
    \E s \in SocketIds, text \in CompleteTexts :
        /\ CanLog
        /\ lastPush.job[JSONParse(text).data.job.id] = <<>>
        /\ OnMessage(s, text)
JobsFetched ==
    \E r \in inflight, res \in {Threw, Body([jobs |-> TypicalJobs])} :
        CanLog /\ JobsResponse(r, res)
CreateJob == CanClick /\ CreateJobSubmit
CreateDemoJob == CanClick /\ CreateDemoJobClick
ToggleJob == \E i \in 1..Len(activeJobs) : CanClick /\ ToggleClick(i)
IntentAnswered ==
    \E r \in inflight, outcome \in Outcomes : CanLog /\ IntentResponse(r, outcome)

NextLog ==
    \/ Mount
    \/ SocketOpens
    \/ LogFrameArrives
    \/ CompletionArrives
    \/ JobsFetched
    \/ CreateJob
    \/ CreateDemoJob
    \/ ToggleJob
    \/ IntentAnswered

SpecLog == Init /\ [][NextLog]_vars

(* SpecIntent: the user's clicks.  The registry shows jobs in every        *)
(* status; intents are made while others are in flight and are accepted,   *)
(* rejected or fail in transport; the backend pushes the new status of a   *)
(* job once.                                                               *)

Row(id, status) == [id |-> id, name |-> "job", status |-> status]

IntentSnapshots ==
    {<<Row("a", "running"), Row("b", "pending")>>,
     <<Row("a", "paused"), Row("b", "completed")>>,
     <<Row("a", "completed"), Row("b", "error")>>}

StatusPushes == {JobUpdateMsg(Row("a", st)) : st \in {"paused", "running"}}

MayClick == Idle /\ nextReq < MaxSent

UserCreatesJob == MayClick /\ CreateJobSubmit
UserCreatesDemoJob == MayClick /\ CreateDemoJobClick
UserToggles == \E i \in 1..Len(activeJobs) : MayClick /\ ToggleClick(i)
IntentSettled == \E r \in inflight, outcome \in Outcomes : Idle /\ IntentResponse(r, outcome)
RegistryPulled ==
    \E r \in inflight, res \in {Threw} \cup {Body([jobs |-> q]) : q \in IntentSnapshots} :
        Idle /\ JobsResponse(r, res)
StatusPushed ==
    \E s \in SocketIds, m \in StatusPushes :
        Idle /\ lastPush.job[m.job.id] = <<>> /\ OnMessage(s, Encode(m))

NextIntent ==
    \/ Mount
    \/ SocketOpens
    \/ StatusPushed
    \/ RegistryPulled
    \/ UserCreatesJob
    \/ UserCreatesDemoJob
    \/ UserToggles
    \/ IntentSettled

SpecIntent == Init /\ [][NextIntent]_vars

(* SpecPull: the refresh cycles.  Every fetch fails, is answered with an   *)
(* error body or with a snapshot; the cycle repeats; the backend pushes    *)
(* the new status of a job once.                                           *)

PullSnapshots == {TypicalJobs, <<Row("b", "paused")>>}

JobsPulled ==
    \E r \in inflight,
       res \in {Threw, Body(ErrorBody)} \cup {Body([jobs |-> q]) : q \in PullSnapshots} :
        Idle /\ JobsResponse(r, res)
ProxiesPulled ==
    \E r \in inflight, res \in {Threw} \cup {Body([proxies |-> q]) : q \in ProxySnapshots} :
        Idle /\ ProxiesResponse(r, res)
AnalyticsPulled ==
    \E r \in inflight, res \in {Threw} \cup {Body(a) : a \in AnalyticsSnapshots} :
        Idle /\ AnalyticsResponse(r, res)

NextPull ==
    \/ Mount
    \/ SocketOpens
    \/ StatusPushed
    \/ JobsPulled
    \/ ProxiesPulled
    \/ AnalyticsPulled
    \/ RefreshDue
    \/ TimedRefresh

SpecPull == Init /\ [][NextPull]_vars

(* SpecFeed: the frames of a healthy connection, one after the other: item *)
(* batches of two jobs, job updates and completions, log and unknown       *)
(* messages, while the pulls of activation are answered.                   *)

FeedMsgs ==
    {ItemsMsg("a", 1), ItemsMsg("b", 2), OtherMsg, LogMsg(<<"X">>, "error"),
     JobUpdateMsg(Row("a", "paused")),
     JobCompleteMsg(Row("a", "completed"), 5),
     JobCompleteMsg(Row("b", "completed"), 7)}

FeedFrameArrives ==
    \E s \in SocketIds, m \in FeedMsgs :
        Idle /\ FramesHandled < MaxBatches /\ OnMessage(s, Encode(m))

NextFeed ==
    \/ Mount
    \/ SocketOpens
    \/ FeedFrameArrives
    \/ SnapshotAnswered
    \/ ProxiesAnswered
    \/ AnalyticsAnswered

SpecFeed == Init /\ [][NextFeed]_vars

(* SpecProxy: everything that could reach the Proxy Registry: frames of    *)
(* every type, failing and reconnecting sockets, the user's clicks and     *)
(* their answers, the pulls of activation.  Every connection delivers one  *)
(* frame, of any type; the user clicks once, when the pulls of activation  *)
(* are answered.                                                           *)

ProxyMsgs ==
    {ItemsMsg("a", 1), OtherMsg, LogMsg(<<"X">>, "error"),
     JobUpdateMsg(Row("a", "paused")), JobCompleteMsg(Row("b", "completed"), 7)}

ProxyFrameArrives ==
    \E s \in SocketIds, m \in ProxyMsgs :
        Idle /\ received[s] = 0 /\ OnMessage(s, Encode(m))

ClicksAtRest == Idle /\ inflight = {} /\ nextReq = Len(MountFetches)

CreatesJobAtRest == ClicksAtRest /\ CreateJobSubmit
CreatesDemoJobAtRest == ClicksAtRest /\ CreateDemoJobClick
TogglesAtRest == \E i \in 1..Len(activeJobs) : ClicksAtRest /\ ToggleClick(i)

NextProxy ==
    \/ Mount
    \/ SocketOpens
    \/ ProxyFrameArrives
    \/ SocketFails
    \/ SocketCloses
    \/ ReconnectDue
    \/ Reconnect
    \/ SnapshotAnswered
    \/ ProxiesPulled
    \/ AnalyticsAnswered
    \/ CreatesJobAtRest
    \/ CreatesDemoJobAtRest
    \/ TogglesAtRest
    \/ IntentSettled

SpecProxy == Init /\ [][NextProxy]_vars

(* SpecClock: log frames while the clock runs: any number of frames is    *)
(* handled within one millisecond.                                         *)

ClockTicks == Idle /\ ClockAdvances

NextClock ==
    \/ Mount
    \/ SocketOpens
    \/ ClockTicks
    \/ LogFrameArrives

SpecClock == Init /\ [][NextClock]_vars

(* SpecUnmount: one activation and one deactivation of the component.     *)
(* The sockets and timers outlive the component: their events keep coming  *)
(* and their handlers keep running after deactivation (React drops what    *)
(* they set on the unmounted component).                                   *)

Activates == cycle.n = 0 /\ Mount
Deactivates == Idle /\ Unmount

NextUnmount ==
    \/ Activates
    \/ Deactivates
    \/ SocketOpens
    \/ SocketFails
    \/ SocketCloses
    \/ ReconnectDue
    \/ Reconnect
    \/ RefreshDue
    \/ TimedRefresh

SpecUnmount == Init /\ [][NextUnmount]_vars

(* SpecLive: SpecTimed with the scheduling the browser guarantees: time    *)
(* passes, a due timer callback runs, the close event follows the error    *)
(* event.                                                                  *)

CloseFollowsError == \E s \in SocketIds : pendingClose = s /\ OnClose(s)

SpecLive ==
    /\ Init /\ [][NextTimed]_vars
    /\ WF_vars(SecondPasses)
    /\ WF_vars(Reconnect)
    /\ WF_vars(CloseFollowsError)

-----------------------------------------------------------------------------
(* Job Registry: push and pull (Spec) *)

\* onmessage ran in this step
FrameHandled == FramesHandled' = FramesHandled + 1
\* the message it parsed, when the frame parsed
Parsed == JSONParse(lastFrame')
Has(registry, id) == \E i \in 1..Len(registry) : registry[i].id = id

\* C1, as claimed: whatever pull responses were applied in between, the
\* registry's entry for an identifier is the job of the latest push event
\* for that identifier.
C1_EntryIsLatestPush ==
    \A id \in JobIds : \A i \in 1..Len(activeJobs) :
        (activeJobs[i].id = id /\ lastPush.job[id] # <<>>)
            => activeJobs[i] = lastPush.job[id][1]

\* C1, amended: the registry's entry for an identifier is the job of the
\* latest push event for that identifier as long as no pull response has
\* been applied since that event (a later pull snapshot overwrites it: the
\* last write wins).
C1_EntryIsLatestPushSincePull ==
    \A id \in JobIds \ lastPush.stale : \A i \in 1..Len(activeJobs) :
        (activeJobs[i].id = id /\ lastPush.job[id] # <<>>)
            => activeJobs[i] = lastPush.job[id][1]

\* C1 happens: a was pushed after the latest pull and shows as pushed, while
\* the push for b was overwritten by that pull.
C1_Witness ==
    /\ "a" \notin lastPush.stale /\ lastPush.job["a"] # <<>>
    /\ \E i \in 1..Len(activeJobs) : activeJobs[i] = lastPush.job["a"][1]
    /\ "b" \in lastPush.stale /\ lastPush.job["b"] # <<>>
    /\ \E i \in 1..Len(activeJobs) :
            activeJobs[i].id = "b" /\ activeJobs[i] # lastPush.job["b"][1]

\* C2, as claimed: a job_update or job_complete event for an identifier the
\* registry does not hold inserts the event's job into the registry.
C2_PushInsertsAbsentJob ==
    [][(FrameHandled /\ Parsed.ok /\ IsJobPush(Parsed.data)
            /\ ~Has(activeJobs, Parsed.data.job.id))
        => \E i \in 1..Len(activeJobs') : activeJobs'[i] = Parsed.data.job]_vars

\* C3: a job_update event replaces the entries with the event's identifier
\* by the event's job and leaves every other entry, the length and the
\* order of the registry as they were; with no such entry the registry is
\* unchanged.
C3_UpdateReplacesInPlace ==
    [][(FrameHandled /\ Parsed.ok /\ Parsed.data.type = "job_update")
        => /\ Len(activeJobs') = Len(activeJobs)
           /\ \A i \in 1..Len(activeJobs) :
                activeJobs'[i] = IF activeJobs[i].id = Parsed.data.job.id
                                 THEN Parsed.data.job
                                 ELSE activeJobs[i]
           /\ ~Has(activeJobs, Parsed.data.job.id) => activeJobs' = activeJobs]_vars

\* C3 happens: the last frame was a job_update for a, handled after the
\* latest pull; the registry holds two jobs and shows a as pushed.
C3_Witness ==
    /\ FramesHandled > 0
    /\ JSONParse(lastFrame).ok
    /\ JSONParse(lastFrame).data.type = "job_update"
    /\ JSONParse(lastFrame).data.job.id = "a"
    /\ "a" \notin lastPush.stale
    /\ Len(activeJobs) = 2
    /\ activeJobs[2] = JSONParse(lastFrame).data.job
    /\ activeJobs[1].id = "b"

-----------------------------------------------------------------------------
(* Push channel (SpecPush) *)

\* C4: a frame whose text fails to parse changes nothing of the React
\* state: not isConnected, not the registries, the feed, the log buffer or
\* the analytics.
C4_MalformedFrameChangesNothing ==
    [][(FrameHandled /\ lastFrame' \in Malformed) => UNCHANGED reactState]_vars

\* C4 happens: the truncated frame was handled on an open connection with
\* the registries loaded.
C4_Witness ==
    /\ FramesHandled > 0
    /\ Len(lastFrame) = 2 /\ lastFrame \in Malformed
    /\ isConnected
    /\ activeJobs = TypicalJobs
    /\ proxies # <<>>

\* C5: at most one connection is live, and a frame is handled only on the
\* newest connection.
C5_OneLiveConnection ==
    [][/\ Cardinality(Live') <= 1
       /\ \A s \in SocketIds : received'[s] # received[s] => s = Len(sockets)]_vars

\* C5 happens: a frame was handled on the third connection, after two
\* connections that also handled frames or failed.
C5_Witness ==
    /\ Len(sockets) = 3
    /\ sockets[1].readyState = "CLOSED" /\ sockets[2].readyState = "CLOSED"
    /\ received[1] > 0 /\ received[3] > 0

-----------------------------------------------------------------------------
(* Timers (SpecTimed, SpecLive) *)

\* C6: a failed connection, whether its failure came as an error event
\* followed by the close event or as the close event alone, leaves
\* isConnected false and has exactly one reconnect attempt scheduled for
\* it, which runs after the whole 3-second (3000 ms) delay.
C6_OneReconnectPerFailure ==
    /\ \A s \in SocketIds :
        /\ sockets[s].readyState # "CLOSED" => scheduled[s] = 0
        /\ (sockets[s].readyState = "CLOSED" /\ pendingClose # s) => scheduled[s] = 1
        /\ scheduled[s] <= 1
        /\ s > 1 => sockets[s].after >= RECONNECT_DELAY
    /\ (sockets # <<>> /\ sockets[Len(sockets)].readyState = "CLOSED") => ~isConnected
    /\ \A t \in timers : t.remaining + t.waited = RECONNECT_DELAY

\* C6 happens: two connections failed in turn and the third was made.
C6_Witness ==
    /\ Len(sockets) = 3
    /\ scheduled[1] = 1 /\ scheduled[2] = 1
    /\ sockets[3].readyState = "CLOSED" /\ pendingClose = 0
    /\ \E t \in timers : t.by = 3 /\ t.remaining = 0

ConnectionState ==
    IF sockets = <<>> THEN "none"
    ELSE CASE sockets[Len(sockets)].readyState = "CONNECTING" -> "connecting"
           [] sockets[Len(sockets)].readyState = "OPEN" -> "open"
           [] OTHER -> "closed"

CycleEdges ==
    {<<"none", "connecting">>, <<"connecting", "open">>, <<"open", "closed">>,
     <<"closed", "connecting">>}

MovesAlong(edges) ==
    \/ ConnectionState' = ConnectionState
    \/ (<<ConnectionState, ConnectionState'>> \in edges)

EventuallyReconnects ==
    \A s \in 1..(MaxSockets - 1) :
        (Len(sockets) = s /\ sockets[s].readyState = "CLOSED") ~> (Len(sockets) > s)

\* C7, as claimed: the connection state moves only along connecting ->
\* open -> closed -> connecting, and a closed connection is always
\* eventually followed by a new attempt.
C7_OnlyTheCycle ==
    /\ [][MovesAlong(CycleEdges)]_vars
    /\ EventuallyReconnects

\* C7, amended: the connection state moves only along connecting -> open ->
\* closed -> connecting or, when the attempt fails, from connecting straight
\* to closed; a closed connection is always eventually followed by a new
\* attempt (as long as the run may still create a socket).
C7_CycleNeverEnds ==
    /\ [][MovesAlong(CycleEdges \cup {<<"connecting", "closed">>})]_vars
    /\ EventuallyReconnects

\* C7 happens: an attempt failed without opening, and the next attempt is
\* under way.
C7_Witness ==
    /\ Len(sockets) = 2
    /\ sockets[1].readyState = "CLOSED" /\ ws = 0
    /\ sockets[2].readyState = "CONNECTING" /\ sockets[2].after = RECONNECT_DELAY

-----------------------------------------------------------------------------
(* Log Buffer (SpecLog) *)

\* The n newest entries of a history, newest first.
Newest(history, n) == [i \in 1..n |-> history[Len(history) + 1 - i]]

\* C8: whatever logged, the Log Buffer holds at most 10 entries.
C8_AtMostTenEntries == Len(logs) <= 10

\* C8 happens: more than 10 entries were logged, by frames, by a failed jobs
\* fetch and by an intent, and the buffer is full.
C8_Witness ==
    /\ Len(appended) > 10 /\ Len(logs) = 10
    /\ \E i \in 1..Len(logs) : logs[i].message = <<"Failed to fetch jobs from server">>
    /\ \E i \in 1..Len(logs) : logs[i].level = "info"
    /\ \E i \in 1..Len(logs) : logs[i].level = "success"

\* C9: after k calls of addLog the Log Buffer is the last min(k, 10)
\* entries logged, newest first.
C9_BufferIsNewestTen == logs = Newest(appended, Min(Len(appended), 10))

\* C9 happens: 11 entries were logged and the oldest, unlike any other, is
\* the one that is gone.
C9_Witness ==
    /\ Len(appended) = 11 /\ Len(logs) = 10
    /\ logs[1] = appended[11] /\ logs[10] = appended[2]
    /\ \A i \in 1..Len(logs) : logs[i] # appended[1]

\* C10, as claimed: every refresh cycle, the first and the repeated ones,
\* fetches jobs, proxies and analytics.
C10_EveryCycleFetchesAll ==
    cycle.n >= 1 => cycle.fetched = {"jobs", "proxies", "analytics"}

-----------------------------------------------------------------------------
(* User intents (SpecIntent) *)

\* the continuation of an answered request ran in this step
Answered == lastAnswer' # lastAnswer
AnsweredKind(kinds) == Answered /\ lastAnswer'.req.kind \in kinds
\* the entry addLog was called with in this step
JustLogged == appended'[Len(appended')]
LoggedOnce ==
    /\ Len(appended') = Len(appended) + 1
    /\ SubSeq(appended', 1, Len(appended)) = appended
    /\ logs'[1] = JustLogged
RefreshIssued ==
    /\ inflight' = (inflight \ {lastAnswer'.req}) \cup {[seq |-> nextReq + 1, kind |-> "jobs"]}
    /\ nextReq' = nextReq + 1
NothingIssued ==
    /\ inflight' = inflight \ {lastAnswer'.req}
    /\ nextReq' = nextReq

\* C11: when createJob or createDemoJob is rejected by the backend or fails
\* in transport, exactly one entry, of level error, is logged, the Job
\* Registry, the Proxy Registry, the Item Feed and the analytics are
\* unchanged and no request is issued; when it is accepted, exactly one
\* entry, of level success, is logged and one jobs fetch is issued.
C11_CreationLogsOnceAndRefreshesOnSuccess ==
    [][AnsweredKind({"createJob", "createDemoJob"}) =>
        /\ LoggedOnce
        /\ IF lastAnswer'.res.ok
           THEN JustLogged.level = "success" /\ RefreshIssued
           ELSE /\ JustLogged.level = "error"
                /\ NothingIssued
                /\ UNCHANGED <<activeJobs, proxies, scrapedItems, analytics>>]_vars

\* C11 happens: with jobs in the registry a demo job was accepted and then
\* a job creation was rejected or failed in transport.
C11_Witness ==
    /\ lastAnswer.req.kind = "createJob" /\ ~lastAnswer.res.ok
    /\ activeJobs # <<>>
    /\ logs[1].level = "error"
    /\ \E i \in 1..Len(logs) : logs[i].message = <<"Demo job created successfully">>
    /\ \E r \in inflight : r.kind = "jobs" /\ r.seq > Len(MountFetches)

\* C14: a toggle request is issued only for a job the registry shows in a
\* status other than completed and error; it is a pause request exactly
\* when that status is running, a start request otherwise.
C14_PauseIffRunningNeverTerminal ==
    [][\A r \in inflight' \ inflight : r.kind = "toggle" =>
        \E i \in 1..Len(activeJobs) :
            /\ activeJobs[i].id = r.jobId
            /\ activeJobs[i].status \notin {"completed", "error"}
            /\ r.endpoint \in {"pause", "start"}
            /\ (r.endpoint = "pause") <=> (activeJobs[i].status = "running")]_vars

\* C14 happens: a pause request for the running job and a start request for
\* the pending job are in flight.
C14_Witness ==
    /\ \E r \in inflight : r.kind = "toggle" /\ r.jobId = "a" /\ r.endpoint = "pause"
    /\ \E r \in inflight : r.kind = "toggle" /\ r.jobId = "b" /\ r.endpoint = "start"
    /\ activeJobs = <<Row("a", "running"), Row("b", "pending")>>

StatusOf(registry, id) ==
    {registry[i].status : i \in {k \in 1..Len(registry) : registry[k].id = id}}

\* C15, as claimed: while the start or pause request for a job is in
\* flight, the registry entry of that job keeps its status.
C15_StatusHeldUntilRefresh ==
    [][\A r \in inflight \cap inflight' : r.kind = "toggle" =>
        StatusOf(activeJobs', r.jobId) = StatusOf(activeJobs, r.jobId)]_vars

\* C15, amended: neither issuing the start or pause request nor handling
\* its answer changes the Job Registry; a failed request issues no fetch, an
\* accepted one issues a jobs fetch; the registry changes only when a push
\* frame is handled or a jobs pull response is applied.
C15_ToggleLeavesRegistryToPushAndPull ==
    [][/\ (\E r \in inflight' \ inflight : r.kind = "toggle") => activeJobs' = activeJobs
       /\ AnsweredKind({"toggle"}) =>
            /\ activeJobs' = activeJobs
            /\ IF lastAnswer'.res.ok THEN RefreshIssued ELSE NothingIssued
       /\ activeJobs' # activeJobs =>
            \/ FramesHandled' = FramesHandled + 1
            \/ AnsweredKind({"jobs"})]_vars

\* C15 happens: the pause request for the running job was accepted, the
\* fetch it triggered was answered last and the registry shows the job
\* paused.
C15_Witness ==
    /\ \E i \in 1..Len(appended) : appended[i].message = <<"Job ", "pause", "ed successfully">>
    /\ lastAnswer.req.kind = "jobs" /\ lastAnswer.req.seq = Len(MountFetches) + 2
    /\ lastAnswer.res.ok
    /\ lastAnswer.had = {"a", "b"}
    /\ StatusOf(activeJobs, "a") = {"paused"}
    /\ lastPush.job["a"] = <<>>

-----------------------------------------------------------------------------
(* Pull refresh (SpecPull, Spec) *)

\* the snapshot of the jobs answer applied in this step, when it has one
Snapshot == lastAnswer'.res.data.jobs
SnapshotApplied ==
    /\ AnsweredKind({"jobs"})
    /\ lastAnswer'.res.ok
    /\ "jobs" \in DOMAIN lastAnswer'.res.data

\* C12: once a jobs pull response with a snapshot is applied, the Job
\* Registry is exactly that snapshot: a job the registry held, pushed or
\* not, that the snapshot lacks is gone.
C12_PullReplacesRegistry ==
    [][SnapshotApplied =>
        /\ activeJobs' = Snapshot
        /\ \A id \in JobIds : ~Has(Snapshot, id) => ~Has(activeJobs', id)]_vars

\* C12 happens: the registry held jobs a and b, a had been pushed, and the
\* snapshot applied last holds b alone: a is gone.
C12_Witness ==
    /\ lastAnswer.req.kind = "jobs" /\ lastAnswer.res.ok
    /\ lastAnswer.res.data = [jobs |-> <<Row("b", "paused")>>]
    /\ lastAnswer.had = {"a", "b"}
    /\ lastPush.job["a"] # <<>>
    /\ activeJobs = <<Row("b", "paused")>>

\* C13: a fetch that fails is caught: its continuation leaves the interval
\* timer, the other requests in flight, the Job Registry, the Proxy Registry
\* and the analytics as they were and issues no request; the interval timer
\* stays active from activation on.
C13_FailedFetchIsContained ==
    /\ [](mounted => interval.active)
    /\ [][(AnsweredKind({"jobs", "proxies", "analytics"}) /\ ~lastAnswer'.res.ok) =>
            /\ inflight' = inflight \ {lastAnswer'.req}
            /\ nextReq' = nextReq
            /\ UNCHANGED <<interval, cycle, activeJobs, proxies, analytics>>]_vars

\* C13 happens: the jobs fetch of the first cycle failed, the analytics
\* fetch of that cycle was applied, its proxies fetch is still in flight,
\* and the second cycle was issued after the failure.
C13_Witness ==
    /\ lastAnswer.req = [seq |-> 1, kind |-> "jobs"] /\ ~lastAnswer.res.ok
    /\ lastAnswer.during = 1 /\ cycle.n = 2
    /\ [seq |-> 2, kind |-> "proxies"] \in inflight
    /\ [seq |-> 4, kind |-> "jobs"] \in inflight
    /\ analytics # InitialAnalytics
    /\ logs # <<>> /\ logs[1].message = <<"Failed to fetch jobs from server">>

\* C19: when the answer applied is the answer applied just before it to the
\* same fetch (jobs, proxies or analytics), and no job was pushed in
\* between, the Job Registry, the Proxy Registry and the analytics are
\* what they were after the first application.
C19_SameSnapshotTwiceIsOnce ==
    [][(Answered /\ lastAnswer'.again /\ lastAnswer'.res.ok
            /\ lastAnswer'.req.kind \in {"jobs", "proxies", "analytics"}
            /\ (lastAnswer'.req.kind = "jobs" => lastPush.stale = JobIds))
        => UNCHANGED <<activeJobs, proxies, analytics>>]_vars

\* C19 happens: the jobs fetches of the first and the second cycle were
\* answered one after the other with the same two jobs.
C19_Witness ==
    /\ lastAnswer.again /\ lastAnswer.res.ok
    /\ lastAnswer.req = [seq |-> 4, kind |-> "jobs"]
    /\ lastAnswer.res.data = [jobs |-> TypicalJobs]
    /\ activeJobs = TypicalJobs

\* C17, as claimed: a job the Job Registry shows in a terminal status
\* (completed, error) is not shown in a non-terminal status by the next
\* push event or pull response.
C17_TerminalStaysTerminal ==
    [][\A i \in 1..Len(activeJobs), j \in 1..Len(activeJobs') :
        (activeJobs[i].id = activeJobs'[j].id
            /\ activeJobs[i].status \in {"completed", "error"})
        => activeJobs'[j].status \in {"completed", "error"}]_vars

-----------------------------------------------------------------------------
(* Frames of every type (SpecFeed) *)

IsPrefix(p, q) == Len(p) <= Len(q) /\ SubSeq(q, 1, Len(p)) = p
Range(q) == {q[i] : i \in 1..Len(q)}

\* C16: the Item Feed before a step is a prefix of the feed after it; it
\* grows only when a scraped_items message is handled, by the records of
\* the message in their order, each with the message's job_id, page and
\* timestamp.
C16_FeedIsAppendOnly ==
    [][/\ IsPrefix(scrapedItems, scrapedItems')
       /\ scrapedItems' # scrapedItems =>
            (FrameHandled /\ Parsed.ok /\ Parsed.data.type = "scraped_items")
       /\ (FrameHandled /\ Parsed.ok /\ Parsed.data.type = "scraped_items") =>
            /\ Len(scrapedItems') = Len(scrapedItems) + Len(Parsed.data.items)
            /\ \A i \in 1..Len(Parsed.data.items) :
                LET item == scrapedItems'[Len(scrapedItems) + i] IN
                /\ item.title = Parsed.data.items[i].title
                /\ item.job_id = Parsed.data.job_id
                /\ item.page = Parsed.data.page
                /\ item.timestamp = Parsed.data.timestamp]_vars

\* C16 happens: a batch of job a, then a batch of job b, then a job update
\* were handled, every pull of activation was applied, and the feed holds
\* the four records in the order of arrival.
C16_Witness ==
    /\ Len(scrapedItems) = 4
    /\ scrapedItems[1].job_id = "a" /\ scrapedItems[1].title = "t1"
    /\ scrapedItems[2].job_id = "a" /\ scrapedItems[2].title = "t2"
    /\ scrapedItems[3].job_id = "b" /\ scrapedItems[3].page = 2
    /\ scrapedItems[4].job_id = "b" /\ scrapedItems[4].title = "t2"
    /\ lastFrame = Encode(JobUpdateMsg(Row("a", "paused")))
    /\ inflight = {}

\* C18: a job_complete message and a job_update message replace the
\* registry entries of the message's job in the same way; job_complete
\* logs exactly one entry, of level success, whose text holds the
\* message's total_items; job_update logs nothing.
C18_CompleteReplacesAndLogsOnce ==
    [][(FrameHandled /\ Parsed.ok /\ Parsed.data.type \in {"job_update", "job_complete"}) =>
        /\ activeJobs' = [i \in 1..Len(activeJobs) |->
                            IF activeJobs[i].id = Parsed.data.job.id
                            THEN Parsed.data.job
                            ELSE activeJobs[i]]
        /\ IF Parsed.data.type = "job_complete"
           THEN /\ LoggedOnce
                /\ JustLogged.level = "success"
                /\ ToString(Parsed.data.total_items) \in Range(JustLogged.message)
           ELSE appended' = appended /\ logs' = logs]_vars

\* C18 happens: a job_update for a and then a job_complete for b with 7
\* items were handled on the loaded registry; both entries are replaced
\* and the only log entry is the one of the completion.
C18_Witness ==
    /\ activeJobs = <<Row("a", "paused"), Row("b", "completed")>>
    /\ lastFrame = Encode(JobCompleteMsg(Row("b", "completed"), 7))
    /\ FramesHandled = 2
    /\ Len(appended) = 1
    /\ logs = <<NewLog(<<"Job \"", "job", "\" completed with ", "7", " items">>, "success")>>

\* C20: a message whose type is none of job_update, job_complete, log and
\* scraped_items changes nothing of the React state: the registries, the
\* feed, the log buffer, the analytics, ws and isConnected.
C20_UnknownTypeChangesNothing ==
    [][(FrameHandled /\ Parsed.ok
            /\ Parsed.data.type \notin {"job_update", "job_complete", "log", "scraped_items"})
        => UNCHANGED reactState]_vars

\* C20 happens: a message of an unknown type was handled last, on an open
\* connection, with jobs, proxies, items and log entries in place.
C20_Witness ==
    /\ lastFrame = Encode(OtherMsg)
    /\ FramesHandled = 3
    /\ isConnected /\ ws # 0
    /\ activeJobs = TypicalJobs /\ proxies # <<>> /\ analytics # InitialAnalytics
    /\ scrapedItems # <<>> /\ logs # <<>>

-----------------------------------------------------------------------------
(* Proxy Registry (SpecProxy) *)

\* C21: the Proxy Registry changes only in the step that applies the answer
\* of a proxies fetch, and then to the proxies of that answer: no frame, no
\* open, error or close of a socket, no reconnect, no click and no answer
\* to an intent or to another fetch changes it.
C21_OnlyProxiesPullWritesProxies ==
    [][proxies' # proxies =>
        /\ AnsweredKind({"proxies"})
        /\ lastAnswer'.res.ok
        /\ "proxies" \in DOMAIN lastAnswer'.res.data => proxies' = lastAnswer'.res.data.proxies]_vars

\* C21 happens: with the proxies loaded, a frame was handled on the first
\* connection, that connection closed, a frame was handled on the second
\* connection, and a toggle was answered last.
C21_Witness ==
    /\ proxies # <<>>
    /\ Len(sockets) >= 2
    /\ sockets[1].readyState = "CLOSED"
    /\ received[1] = 1 /\ received[2] = 1
    /\ lastAnswer.req.kind = "toggle"
    /\ scrapedItems # <<>>

-----------------------------------------------------------------------------
(* Pulls in flight (SpecPull) *)

\* C22: a request leaves the requests in flight only when its own
\* continuation runs, and a jobs answer that parsed is applied whenever it
\* arrives, whatever was pushed or pulled since the request was sent: the
\* registry is then the jobs of that answer.
C22_LateAnswerStillApplies ==
    /\ [][\A r \in inflight \ inflight' : Answered /\ lastAnswer'.req = r]_vars
    /\ [][(AnsweredKind({"jobs"}) /\ lastAnswer'.res.ok) =>
            activeJobs' = IF "jobs" \in DOMAIN lastAnswer'.res.data
                          THEN lastAnswer'.res.data.jobs
                          ELSE <<>>]_vars

\* C22 happens: the jobs fetches of the first and of the second cycle were
\* in flight together; the second was answered first, with jobs a and b, a
\* push for a was handled, and the answer to the first, arriving last with
\* b alone, is what the registry holds.
C22_Witness ==
    /\ cycle.n = 2
    /\ lastAnswer.req = [seq |-> 1, kind |-> "jobs"]
    /\ lastAnswer.res = Body([jobs |-> <<Row("b", "paused")>>])
    /\ lastAnswer.during = 2
    /\ lastAnswer.had = {"a", "b"}
    /\ [seq |-> 4, kind |-> "jobs"] \notin inflight
    /\ lastPush.job["a"] # <<>>
    /\ activeJobs = <<Row("b", "paused")>>

-----------------------------------------------------------------------------
(* Log entry identifiers (SpecClock) *)

\* C23, as claimed: the identifiers of the entries in the Log Buffer are
\* pairwise distinct and strictly decreasing from the newest entry to the
\* oldest, also when two entries are logged within the same millisecond.
C23_IdsStrictlyDecreasing ==
    \A i, j \in 1..Len(logs) : i < j => logs[i].id > logs[j].id

-----------------------------------------------------------------------------
(* Deactivation (SpecUnmount) *)

Deactivated == ~mounted /\ cycle.n > 0

\* C24, as claimed: the cleanup closes the open connection that onopen
\* stored in ws, leaving no connection live, and once the component is
\* deactivated no reconnect timer is set and no WebSocket is created.
C24_CleanupClosesAndStopsReconnecting ==
    /\ [][(mounted /\ ~mounted' /\ ws \in Live) => Live' = {}]_vars
    /\ [][Deactivated => (scheduled' = scheduled /\ Len(sockets') = Len(sockets))]_vars

====
